---- MODULE Spec2Model ----
(***************************************************************************)
(* Per-frame motion-to-identity pipeline of src/src/motionTracking.py:     *)
(* imageProcessing (background differencing, mask, contours),              *)
(* clusterParams / contourClustering (k-means on the contour points),      *)
(* centroidTracking (relabelling of the two clusters against the previous  *)
(* frame's centers) and the three display operations.                      *)
(*                                                                         *)
(* Images are one-row grids of Width pixels, points are integer grid       *)
(* points, and distances are compared through their squares (math.sqrt is  *)
(* strictly increasing on the exactly representable values used here).     *)
(***************************************************************************)
EXTENDS Integers, Sequences, FiniteSets, TLC

VARIABLES
    pc,               \* position of the driver in the current specification
    \* ---- imageProcessing ----
    master,           \* background reference handed to / returned by imageProcessing
    contours,         \* contours returned by imageProcessing / given to contourClustering
    hierarchy,        \* hierarchy returned by imageProcessing
    frames,           \* [frame0 .. frame5] returned by imageProcessing
    status,           \* 'break' | 'continue' | 'None'
    grabbed,          \* result flag of the last camera.read()
    frame0,           \* raw frame of the last camera.read()
    masterIn,         \* the master argument of the last call
    absdiffArgs,      \* arguments of cv2.absdiff in the last call, None if not called
    nReads,           \* number of camera.read() calls made by the last call
    nFrames,          \* number of calls made so far in this run
    frame0Prev,       \* raw frame grabbed by the call before the last one
    \* ---- clusterParams / contourClustering / display ----
    multiTouch,       \* the multi-touch flag
    numRandomContours,\* configured sample budget (module setting, line 30)
    criteria,         \* k-means termination criteria
    clusterNumber,    \* number of clusters requested
    clusterA,         \* cluster input A
    clusterB,         \* cluster input B
    center,           \* sequence of cluster centers
    kmeansData,       \* the samples handed to cv2.kmeans, None if not called
    raised,           \* TRUE when the last call ended in an exception
    screen,           \* circles drawn by the display operations
    reads,            \* argument paths read by the display operations
    \* ---- centroidTracking ----
    previousCenter,   \* centers of the previous frame
    argsIn,           \* arguments of the last centroidTracking call
    cloudIndex,       \* raw cluster index (0 or 1) holding the first source
    sources,          \* true positions of the two sources <<first, second>>
    frameNo           \* number of frames tracked so far

imgVars   == <<master, contours, hierarchy, frames, status, grabbed, frame0,
               masterIn, absdiffArgs, nReads, nFrames, frame0Prev>>
clusVars  == <<multiTouch, numRandomContours, criteria, clusterNumber,
               kmeansData, raised, screen, reads>>
abVars    == <<clusterA, clusterB, center>>
trackVars == <<previousCenter, argsIn, cloudIndex, sources, frameNo>>
vars      == <<pc, imgVars, clusVars, abVars, trackVars>>

(***************************************************************************)
(* Bounds of the model.                                                    *)
(***************************************************************************)
MaxCoord == 2          \* centers lie on the grid 0..MaxCoord x 0..MaxCoord
MaxFrames == 3         \* frames per run
Width == 3             \* pixels of the one-row camera image
SampleBudget == 2      \* the non-zero setting of numRandomContours explored

None == <<"None">>     \* Python's None

Coord  == 0 .. MaxCoord
Points == Coord \X Coord

(***************************************************************************)
(* centroidTracking, lines 153-179.                                        *)
(***************************************************************************)
\* Squared form of math.sqrt((p[0]-q[0])**2 + (p[1]-q[1])**2), lines 168-169.
Dist2(p, q) == (p[1] - q[1]) * (p[1] - q[1]) + (p[2] - q[2]) * (p[2] - q[2])

\* float('inf'), line 165: greater than every distance on the grid.
Infinity == 2 * MaxCoord * MaxCoord + 1

\* Line 162: [center[0], center[1], previousCenter[1]].
comparisonCenterCoordinates(c, prev) == <<c[1], c[2], prev[2]>>

\* The loop of lines 167-172 from candidate i on; yields minCoordinatesCenter.
RECURSIVE minLoop(_, _, _, _, _)
minLoop(cands, pA, i, minDistance, minCoordinatesCenter) ==
    IF i > Len(cands) THEN minCoordinatesCenter
    ELSE LET d == Dist2(pA, cands[i])
         IN  IF d < minDistance
             THEN minLoop(cands, pA, i + 1, d, cands[i])
             ELSE minLoop(cands, pA, i + 1, minDistance, minCoordinatesCenter)

\* The same loop with <= in place of < (the last minimum wins).
centroidTracking_lastMin(cA, cB, c, prev) ==
    LET cands == comparisonCenterCoordinates(c, prev)
        d(i)  == Dist2(prev[1], cands[i])
        best  == CHOOSE i \in 1..3 : /\ \A j \in 1..3 : d(i) <= d(j)
                                     /\ \A j \in 1..3 : j > i => d(j) > d(i)
    IN  IF cands[best] = cands[2]
        THEN <<cB, cA, <<c[2], c[1]>> >>
        ELSE <<cA, cB, c>>

\* The swap taken when the minimum is center[0] instead of center[1].
centroidTracking_swapOnFirst(cA, cB, c, prev) ==
    LET cands == comparisonCenterCoordinates(c, prev)
        m     == minLoop(cands, prev[1], 1, Infinity, <<0, 0>>)
    IN  IF m = cands[1]
        THEN <<cB, cA, <<c[2], c[1]>> >>
        ELSE <<cA, cB, c>>

\* The relabelling that never swaps.
centroidTracking_noSwap(cA, cB, c, prev) == <<cA, cB, c>>

\* Lines 161-179: returns (clusterA, clusterB, center).
centroidTracking(cA, cB, c, prev) ==
    LET cands == comparisonCenterCoordinates(c, prev)
        m     == minLoop(cands, prev[1], 1, Infinity, <<0, 0>>)
    IN  IF m = cands[2]                        \* (m == cands[1]).all(), by value
        THEN <<cB, cA, <<c[2], c[1]>> >>
        ELSE <<cA, cB, c>>

(***************************************************************************)
(* Settings, lines 29-41.                                                  *)
(***************************************************************************)
thresholdValue == 5
thresholdMaxValue == 255
erodingIter == 4
dilatingIter == 8
clusteringIter == 10
clusteringEpsilon == 1
centroidSize == 25

(***************************************************************************)
(* The vision primitives imageProcessing calls, on one-row images.         *)
(***************************************************************************)
Pixels == 1 .. Width

\* BGR values the camera delivers for a pixel: dark and lit.
RawPixels == {<<0, 0, 0>>, <<16, 16, 16>>}
CameraFrames == [Pixels -> RawPixels]

Abs(n) == IF n < 0 THEN -n ELSE n
Min2(a, b) == IF a < b THEN a ELSE b
Max2(a, b) == IF a > b THEN a ELSE b

\* cv2.cvtColor(frame0, cv2.COLOR_BGR2GRAY), line 90: rounded luminance.
cvtColorGray(f) ==
    [x \in Pixels |-> (114 * f[x][1] + 587 * f[x][2] + 299 * f[x][3] + 500) \div 1000]

\* cv2.GaussianBlur, line 91: binomial kernel cut to the row, reflected border.
GaussianBlur(f) ==
    LET at(x) == IF x < 1 THEN f[2] ELSE IF x > Width THEN f[Width - 1] ELSE f[x]
    IN  [x \in Pixels |-> (at(x - 1) + 2 * at(x) + at(x + 1) + 2) \div 4]

\* cv2.absdiff, line 98.
absdiff(a, b) == [x \in Pixels |-> Abs(a[x] - b[x])]

\* cv2.threshold(..., cv2.THRESH_BINARY)[1], line 99.
threshold(f) ==
    [x \in Pixels |-> IF f[x] > thresholdValue THEN thresholdMaxValue ELSE 0]

\* One pass of the 2x2 kernel (anchor on its second cell): pixels x-1 and x.
erodeStep(f)  == [x \in Pixels |-> IF x = 1 THEN f[x] ELSE Min2(f[x - 1], f[x])]
dilateStep(f) == [x \in Pixels |-> IF x = 1 THEN f[x] ELSE Max2(f[x - 1], f[x])]

\* cv2.erode(frame4, kernel, iterations=n), line 103.
RECURSIVE erode(_, _)
erode(f, n) == IF n = 0 THEN f ELSE erode(erodeStep(f), n - 1)

\* cv2.dilate(frame5, kernel, iterations=n), line 104.
RECURSIVE dilate(_, _)
dilate(f, n) == IF n = 0 THEN f ELSE dilate(dilateStep(f), n - 1)

\* cv2.findContours(..., RETR_EXTERNAL, CHAIN_APPROX_SIMPLE), line 107: one
\* contour per run of set pixels, holding the run's end points (x, y) from 0.
RECURSIVE runsFrom(_, _)
runsFrom(f, x) ==
    IF x > Width THEN <<>>
    ELSE IF f[x] = 0 THEN runsFrom(f, x + 1)
    ELSE LET last == CHOOSE e \in x..Width :
                         /\ \A y \in x..e : f[y] # 0
                         /\ (e = Width \/ f[e + 1] = 0)
             run  == IF last = x THEN << <<x - 1, 0>> >>
                     ELSE << <<x - 1, 0>>, <<last - 1, 0>> >>
         IN  <<run>> \o runsFrom(f, last + 1)

findContours(f) ==
    LET cs == runsFrom(f, 1)
        n  == Len(cs)
        h  == [k \in 1..n |-> <<(IF k < n THEN k ELSE -1),
                                (IF k > 1 THEN k - 2 ELSE -1), -1, -1>>]
    IN  <<cs, IF n = 0 THEN None ELSE h>>

(***************************************************************************)
(* imageProcessing, lines 80-110.  g and f0 are the result of              *)
(* camera.read(); the value is what the call returns together with the     *)
(* arguments of its cv2.absdiff call and its number of camera reads.       *)
(***************************************************************************)
Returned(m, cs, h, fs, st, ad) ==
    [master |-> m, contours |-> cs, hierarchy |-> h, frames |-> fs,
     status |-> st, absdiffArgs |-> ad, nReads |-> 1]

\* The background reference is kept from the first frame on (no line 108).
imageProcessing_staticMaster(g, f0, m) ==
    IF ~g THEN Returned(None, None, None, None, "break", None)
    ELSE LET f1 == cvtColorGray(f0)
             f2 == GaussianBlur(f1)
         IN  IF m = None THEN Returned(f2, None, None, None, "continue", None)
             ELSE LET f3 == absdiff(m, f2)
                      f4 == threshold(f3)
                      f5 == dilate(erode(f4, erodingIter), dilatingIter)
                      fc == findContours(f5)
                  IN  Returned(m, fc[1], fc[2], <<f0, f1, f2, f3, f4, f5>>,
                               "None", <<m, f2>>)

\* The first frame is differenced against itself instead of being skipped.
imageProcessing_noWarmup(g, f0, m) ==
    IF ~g THEN Returned(None, None, None, None, "break", None)
    ELSE LET f1 == cvtColorGray(f0)
             f2 == GaussianBlur(f1)
             rf == IF m = None THEN f2 ELSE m
             f3 == absdiff(rf, f2)
             f4 == threshold(f3)
             f5 == dilate(erode(f4, erodingIter), dilatingIter)
             fc == findContours(f5)
         IN  Returned(f2, fc[1], fc[2], <<f0, f1, f2, f3, f4, f5>>,
                      "None", <<m, f2>>)

\* A failed grab keeps the reference and reports a skipped frame.
imageProcessing_keepOnFail(g, f0, m) ==
    IF ~g THEN Returned(m, None, None, None, "continue", None)
    ELSE LET f1 == cvtColorGray(f0)
             f2 == GaussianBlur(f1)
         IN  IF m = None THEN Returned(f2, None, None, None, "continue", None)
             ELSE LET f3 == absdiff(m, f2)
                      f4 == threshold(f3)
                      f5 == dilate(erode(f4, erodingIter), dilatingIter)
                      fc == findContours(f5)
                  IN  Returned(f2, fc[1], fc[2], <<f0, f1, f2, f3, f4, f5>>,
                               "None", <<m, f2>>)

imageProcessing(g, f0, m) ==
    IF ~g THEN Returned(None, None, None, None, "break", None)      \* 87-88
    ELSE LET f1 == cvtColorGray(f0)                                 \* 90
             f2 == GaussianBlur(f1)                                 \* 91
         IN  IF m = None                                            \* 94-96
             THEN Returned(f2, None, None, None, "continue", None)
             ELSE LET f3 == absdiff(m, f2)                          \* 98
                      f4 == threshold(f3)                           \* 99
                      f5 == dilate(erode(f4, erodingIter), dilatingIter)
                      fc == findContours(f5)                        \* 107
                  IN  Returned(f2, fc[1], fc[2],                    \* 108-110
                               <<f0, f1, f2, f3, f4, f5>>, "None", <<m, f2>>)

(***************************************************************************)
(* Values of the variables a specification does not use.                   *)
(***************************************************************************)
ImgIdle ==
    /\ master = None /\ contours = None /\ hierarchy = None /\ frames = None
    /\ status = "" /\ grabbed = FALSE /\ frame0 = None /\ masterIn = None
    /\ absdiffArgs = None /\ nReads = 0 /\ nFrames = 0 /\ frame0Prev = None

ClusIdle ==
    /\ multiTouch = FALSE /\ numRandomContours = 0 /\ criteria = None
    /\ clusterNumber = 0 /\ kmeansData = None /\ raised = FALSE
    /\ screen = {} /\ reads = {}

ABIdle == clusterA = <<>> /\ clusterB = <<>> /\ center = <<>>

TrackIdle ==
    /\ previousCenter = <<>> /\ argsIn = None /\ cloudIndex = 0 /\ sources = <<>>
    /\ frameNo = 0

(***************************************************************************)
(* Spec: the frame loop around imageProcessing.  The driver starts with    *)
(* master = None, hands the returned master to the next call and leaves    *)
(* the loop on 'break'.                                                    *)
(***************************************************************************)
Init ==
    /\ pc = "loop"
    /\ ImgIdle /\ ClusIdle /\ ABIdle /\ TrackIdle

ImageProcessing ==
    /\ pc = "loop"
    /\ nFrames < MaxFrames
    /\ \E g \in BOOLEAN :
       \E f0 \in (IF g THEN CameraFrames ELSE {None}) :
          LET r == imageProcessing(g, f0, master)
          IN  /\ grabbed' = g
              /\ frame0' = f0
              /\ frame0Prev' = frame0
              /\ masterIn' = master
              /\ master' = r.master
              /\ contours' = r.contours
              /\ hierarchy' = r.hierarchy
              /\ frames' = r.frames
              /\ status' = r.status
              /\ absdiffArgs' = r.absdiffArgs
              /\ nReads' = r.nReads
              /\ nFrames' = nFrames + 1
              /\ pc' = IF r.status = "break" THEN "ended" ELSE "loop"
    /\ UNCHANGED <<clusVars, abVars, trackVars>>

Next == ImageProcessing

Spec == Init /\ [][Next]_vars

\* The smoothed image of a raw frame: frame2 of lines 90-91.
Smoothed(f) == GaussianBlur(cvtColorGray(f))

\* C4: a call with master = None that grabs a frame returns 'continue', makes
\* the frame's smoothed image the reference and yields no contours, hierarchy
\* or frames; cv2.absdiff is never called with an undefined reference.
WarmupEstablishesReference ==
    /\ (nFrames > 0 /\ grabbed /\ masterIn = None) =>
          /\ status = "continue"
          /\ master = Smoothed(frame0)
          /\ contours = None /\ hierarchy = None /\ frames = None
          /\ absdiffArgs = None
    /\ (absdiffArgs # None => absdiffArgs[1] # None)

WarmupReached ==
    nFrames > 0 /\ grabbed /\ masterIn = None /\ status = "continue"

\* C8: a failed grab returns (None, None, None, None, 'break') whatever the
\* reference was, after one camera read and without differencing; a call
\* that grabs a frame never returns 'break'.
EndOfStreamOnly ==
    /\ (nFrames > 0 /\ ~grabbed) =>
          /\ status = "break"
          /\ master = None /\ contours = None /\ hierarchy = None
          /\ frames = None /\ absdiffArgs = None /\ nReads = 1
    /\ (nFrames > 0 /\ grabbed) => (status # "break" /\ pc # "ended")
    /\ (pc = "ended" => status = "break")

EndOfStreamReached ==
    nFrames > 1 /\ ~grabbed /\ masterIn # None /\ status = "break"

\* C9: after every call that grabs a frame the returned master is that
\* frame's smoothed image, and the delta of a processed frame is taken
\* against the smoothed image of the frame grabbed by the preceding call.
ReferenceTrailsByOneFrame ==
    (nFrames > 0 /\ grabbed) =>
        /\ master = Smoothed(frame0)
        /\ masterIn # None =>
              /\ status = "None"
              /\ absdiffArgs = <<Smoothed(frame0Prev), Smoothed(frame0)>>
              /\ frames[4] = absdiff(Smoothed(frame0Prev), Smoothed(frame0))

ReferenceReplacedReached ==
    /\ nFrames >= 3 /\ grabbed /\ status = "None"
    /\ frame0Prev # frame0 /\ contours = <<>>

(***************************************************************************)
(* clusterParams, lines 114-125.                                           *)
(***************************************************************************)
TERM_CRITERIA_MAX_ITER == 1
TERM_CRITERIA_EPS == 2

clusterParams(mt) ==
    [criteria |-> <<TERM_CRITERIA_EPS + TERM_CRITERIA_MAX_ITER,
                    clusteringIter, clusteringEpsilon>>,
     clusterNumber |-> IF mt THEN 2 ELSE 1,
     clusterA |-> << <<0, 0>> >>, clusterB |-> << <<0, 0>> >>,
     center |-> << <<0, 0>>, <<0, 0>> >>]

(***************************************************************************)
(* cv2.kmeans as called on line 143: it raises when there are fewer        *)
(* samples than clusters; otherwise it may return any labelling that       *)
(* leaves no cluster empty, with each center the mean of its cluster.      *)
(***************************************************************************)
RECURSIVE SumSeq(_, _)
SumSeq(ps, k) == IF ps = <<>> THEN 0 ELSE Head(ps)[k] + SumSeq(Tail(ps), k)

Mean(ps) == <<SumSeq(ps, 1) \div Len(ps), SumSeq(ps, 2) \div Len(ps)>>

\* data[label.ravel() == k], lines 145 and 148.
RECURSIVE Labelled(_, _, _, _)
Labelled(data, label, k, i) ==
    IF i > Len(data) THEN <<>>
    ELSE (IF label[i] = k THEN <<data[i]>> ELSE <<>>) \o Labelled(data, label, k, i + 1)

kmeansRaises(data, K) == K < 1 \/ Len(data) < K

kmeans(data, K) ==
    {[label |-> l, center |-> [k \in 1..K |-> Mean(Labelled(data, l, k - 1, 1))]] :
        l \in {m \in [1..Len(data) -> 0..(K - 1)] :
                  \A k \in 0..(K - 1) : \E i \in 1..Len(data) : m[i] = k}}

(***************************************************************************)
(* contourClustering, lines 129-149: the set of its possible outcomes.     *)
(***************************************************************************)
\* Lines 137-140: the points of all contours in order.
RECURSIVE contourCoordinates(_)
contourCoordinates(cs) ==
    IF cs = <<>> THEN <<>> ELSE Head(cs) \o contourCoordinates(Tail(cs))

contourClustering(cs, crit, K, mt) ==
    LET data == contourCoordinates(cs)                              \* 137-142
    IN  IF kmeansRaises(data, K)                                    \* 143
        THEN {[raised |-> TRUE, kmeansData |-> data,
               clusterA |-> <<>>, clusterB |-> <<>>, center |-> <<>>]}
        ELSE {[raised |-> FALSE, kmeansData |-> data,
               clusterA |-> Labelled(data, r.label, 0, 1),          \* 145
               clusterB |-> IF mt THEN Labelled(data, r.label, 1, 1) \* 146-148
                                  ELSE <<>>,
               center |-> r.center] : r \in kmeans(data, K)}

(***************************************************************************)
(* The display operations, lines 183-234.  Each yields the circles it      *)
(* draws and the argument paths it reads.  data is the frame record the    *)
(* operations index: data[2] cluster A, data[3] cluster B and data[4] the  *)
(* centers when contours are shown, data[2] the centers otherwise.         *)
(***************************************************************************)
RED  == <<255, 0, 0>>
BLUE == <<0, 0, 255>>
GOLD == <<255, 215, 0>>

Data(sContours, cA, cB, c) ==
    IF sContours
    THEN [i \in 0..4 |-> IF i = 2 THEN cA ELSE IF i = 3 THEN cB
                         ELSE IF i = 4 THEN c ELSE None]
    ELSE [i \in 0..4 |-> IF i = 2 THEN c ELSE None]

\* int(round(v)) of an integer-valued coordinate.
IntRound(v) == v

Circle(colour, p, size) == <<colour, IntRound(p[1]), IntRound(p[2]), size>>

\* Cluster B is rendered whatever the multi-touch flag.
displayContours_alwaysB(data, sContours, mt) ==
    IF sContours
    THEN [draws |-> {Circle(RED, data[2][i], 1) : i \in 1..Len(data[2])}
                    \cup {Circle(BLUE, data[3][i], 1) : i \in 1..Len(data[3])},
          reads |-> {<<"data", 2>>, <<"data", 3>>}]
    ELSE [draws |-> {}, reads |-> {}]

\* Lines 190-197.
displayContours(data, sContours, mt) ==
    IF sContours
    THEN [draws |-> {Circle(RED, data[2][i], 1) : i \in 1..Len(data[2])}
                    \cup (IF mt
                          THEN {Circle(BLUE, data[3][i], 1) : i \in 1..Len(data[3])}
                          ELSE {}),
          reads |-> {<<"data", 2>>} \cup (IF mt THEN {<<"data", 3>>} ELSE {})]
    ELSE [draws |-> {}, reads |-> {}]

\* Lines 209-213.
displayInput(minCoordinatesClusterA, minCoordinatesClusterB, inputSize, mt) ==
    [draws |-> {Circle(RED, minCoordinatesClusterA, inputSize)}
               \cup (IF mt THEN {Circle(BLUE, minCoordinatesClusterB, inputSize)}
                           ELSE {}),
     reads |-> {<<"minCoordinatesClusterA">>}
               \cup (IF mt THEN {<<"minCoordinatesClusterB">>} ELSE {})]

\* Lines 226-234; centers are indexed from 0 as in the source.
displayCentroid(data, sContours, sCentroid, cSize, mt) ==
    IF sCentroid
    THEN LET cidx == IF sContours = FALSE THEN 2 ELSE 4
         IN  [draws |-> {Circle(GOLD, data[cidx][1], cSize)}
                        \cup (IF mt THEN {Circle(GOLD, data[cidx][2], cSize)}
                                    ELSE {}),
              reads |-> {<<"data", cidx, 0>>}
                        \cup (IF mt THEN {<<"data", cidx, 1>>} ELSE {})]
    ELSE [draws |-> {}, reads |-> {}]

\* The argument paths that lead to Cluster B or to center[1].
ClusterBPaths ==
    {<<"data", 3>>, <<"data", 2, 1>>, <<"data", 4, 1>>, <<"minCoordinatesClusterB">>}

(***************************************************************************)
(* SpecClustering: one frame's clustering and rendering.  clusterParams    *)
(* is called with the configured flag, contourClustering with its results  *)
(* and the frame's contours, then the display operations with what         *)
(* contourClustering returned.                                             *)
(***************************************************************************)
ContourPoints == {<<x, 0>> : x \in 0..(Width - 1)}

\* Sequences of distinct contour points.
PointSeqs ==
    UNION {{q \in [1..n -> ContourPoints] :
               \A i \in 1..n, j \in 1..n : i # j => q[i] # q[j]} : n \in 0..Width}

\* The sequence q cut into contours after the positions in cuts, from i on.
RECURSIVE CutFrom(_, _, _)
CutFrom(q, cuts, i) ==
    IF i > Len(q) THEN <<>>
    ELSE LET later == {c \in cuts : c >= i}
             e == IF later = {} THEN Len(q)
                  ELSE CHOOSE c \in later : \A d \in later : c <= d
         IN  <<SubSeq(q, i, e)>> \o CutFrom(q, cuts, e + 1)

\* Every tuple of disjoint non-empty contours over the image row.
ContourInputs ==
    UNION {{CutFrom(q, cuts, 1) : cuts \in SUBSET (1..(Len(q) - 1))} : q \in PointSeqs}

InitClustering ==
    /\ pc = "params"
    /\ ImgIdle /\ ABIdle /\ TrackIdle
    /\ multiTouch \in BOOLEAN
    /\ numRandomContours \in {0, SampleBudget}
    /\ criteria = None /\ clusterNumber = 0 /\ kmeansData = None
    /\ raised = FALSE /\ screen = {} /\ reads = {}

ClusterParams ==
    /\ pc = "params"
    /\ LET r == clusterParams(multiTouch)
       IN  /\ criteria' = r.criteria
           /\ clusterNumber' = r.clusterNumber
           /\ clusterA' = r.clusterA
           /\ clusterB' = r.clusterB
           /\ center' = r.center
    /\ pc' = "cluster"
    /\ UNCHANGED <<imgVars, trackVars, multiTouch, numRandomContours,
                   kmeansData, raised, screen, reads>>

ContourClustering ==
    /\ pc = "cluster"
    /\ \E cs \in ContourInputs :
       \E r \in contourClustering(cs, criteria, clusterNumber, multiTouch) :
          /\ contours' = cs
          /\ kmeansData' = r.kmeansData
          /\ raised' = r.raised
          /\ IF r.raised
             THEN UNCHANGED abVars
             ELSE /\ clusterA' = r.clusterA
                  /\ clusterB' = r.clusterB
                  /\ center' = r.center
          /\ pc' = IF r.raised THEN "error" ELSE "display"
    /\ UNCHANGED <<master, hierarchy, frames, status, grabbed, frame0, masterIn,
                   absdiffArgs, nReads, nFrames, frame0Prev>>
    /\ UNCHANGED <<trackVars, multiTouch, numRandomContours, criteria,
                   clusterNumber, screen, reads>>

Drawn(r) ==
    /\ screen' = screen \cup r.draws
    /\ reads' = reads \cup r.reads
    /\ UNCHANGED <<pc, imgVars, abVars, trackVars, multiTouch, numRandomContours,
                   criteria, clusterNumber, kmeansData, raised>>

DisplayContours ==
    /\ pc = "display"
    /\ \E sContours \in BOOLEAN :
          Drawn(displayContours(Data(sContours, clusterA, clusterB, center),
                                sContours, multiTouch))

DisplayInput ==
    /\ pc = "display"
    /\ Drawn(displayInput(center[1], IF multiTouch THEN center[2] ELSE None,
                          centroidSize, multiTouch))

DisplayCentroid ==
    /\ pc = "display"
    /\ \E sContours \in BOOLEAN, sCentroid \in BOOLEAN :
          Drawn(displayCentroid(Data(sContours, clusterA, clusterB, center),
                                sContours, sCentroid, centroidSize, multiTouch))

NextClustering ==
    \/ ClusterParams
    \/ ContourClustering
    \/ DisplayContours
    \/ DisplayInput
    \/ DisplayCentroid

SpecClustering == InitClustering /\ [][NextClustering]_vars

\* Number of points in a tuple of contours.
RECURSIVE NumPoints(_)
NumPoints(cs) == IF cs = <<>> THEN 0 ELSE Len(Head(cs)) + NumPoints(Tail(cs))

\* C5: when the contours hold more points than a non-zero numRandomContours,
\* contourClustering hands at most numRandomContours samples to cv2.kmeans.
SampleBudgetBound ==
    (kmeansData # None /\ numRandomContours # 0
        /\ NumPoints(contours) > numRandomContours)
    => Len(kmeansData) <= numRandomContours

\* C6: contours with fewer points than clusterNumber lead to no cv2.kmeans
\* call and to no exception.
InfeasibleIsNoMotion ==
    (pc \in {"display", "error"} /\ NumPoints(contours) < clusterNumber)
    => (kmeansData = None /\ ~raised)

\* C7: with multiTouch = FALSE one cluster is requested, the returned
\* Cluster B is empty and no display operation reads Cluster B or center[1].
SingleTouchIgnoresB ==
    (multiTouch = FALSE) =>
        /\ pc # "params" => clusterNumber = 1
        /\ pc = "display" => clusterB = <<>>
        /\ reads \cap ClusterBPaths = {}

SingleTouchReached ==
    /\ multiTouch = FALSE /\ pc = "display" /\ NumPoints(contours) >= 3
    /\ {<<"data", 2>>, <<"data", 2, 0>>, <<"data", 4, 0>>,
        <<"minCoordinatesClusterA">>} \subseteq reads

(***************************************************************************)
(* SpecTracking: one call of centroidTracking on arbitrary arguments.      *)
(***************************************************************************)
\* Point sets handed in as clusters; they need not match the centers.
ClusterSamples == {<<>>, << <<0, 0>>, <<MaxCoord, MaxCoord>> >>}

Args(cA, cB, c, prev) ==
    [clusterA |-> cA, clusterB |-> cB, center |-> c, previousCenter |-> prev]

InitTracking ==
    /\ pc = "call"
    /\ ImgIdle /\ ClusIdle
    /\ clusterA \in ClusterSamples /\ clusterB \in ClusterSamples
    /\ center \in Points \X Points
    /\ previousCenter \in Points \X Points
    /\ argsIn = None /\ cloudIndex = 0 /\ sources = <<>> /\ frameNo = 0

CentroidTracking ==
    /\ pc = "call"
    /\ LET r == centroidTracking(clusterA, clusterB, center, previousCenter)
       IN  /\ argsIn' = Args(clusterA, clusterB, center, previousCenter)
           /\ clusterA' = r[1]
           /\ clusterB' = r[2]
           /\ center' = r[3]
    /\ pc' = "returned"
    /\ UNCHANGED <<imgVars, clusVars, previousCenter, cloudIndex, sources, frameNo>>

NextTracking == CentroidTracking

SpecTracking == InitTracking /\ [][NextTracking]_vars

\* Index (0, 1 or 2) of the nearest of center[0], center[1] and
\* previousCenter[1] to previousCenter[0]: the first of the minimal ones.
NearestCandidate(a) ==
    LET cands == <<a.center[1], a.center[2], a.previousCenter[2]>>
        d(i)  == Dist2(a.previousCenter[1], cands[i])
    IN  (CHOOSE i \in 1..3 : /\ \A j \in 1..3 : d(i) <= d(j)
                             /\ \A j \in 1..3 : j < i => d(j) > d(i)) - 1

\* C1: when center[1] is the nearest candidate the call returns
\* (clusterB, clusterA, [center[1], center[0]]).
SwapWhenSecondNearest ==
    (pc = "returned" /\ NearestCandidate(argsIn) = 1) =>
        /\ clusterA = argsIn.clusterB
        /\ clusterB = argsIn.clusterA
        /\ center = <<argsIn.center[2], argsIn.center[1]>>

SwapReached ==
    /\ pc = "returned" /\ NearestCandidate(argsIn) = 1
    /\ argsIn.clusterA # argsIn.clusterB
    /\ argsIn.center[2] # argsIn.previousCenter[2]
    /\ Dist2(argsIn.previousCenter[1], argsIn.center[2])
          = Dist2(argsIn.previousCenter[1], argsIn.previousCenter[2])
    /\ clusterA = argsIn.clusterB /\ clusterA # argsIn.clusterA

\* C2: when the nearest candidate is center[0] or previousCenter[1] the call
\* returns (clusterA, clusterB, [center[0], center[1]]) as given.
NoSwapUnlessSecondNearest ==
    (pc = "returned" /\ NearestCandidate(argsIn) \in {0, 2}) =>
        /\ clusterA = argsIn.clusterA
        /\ clusterB = argsIn.clusterB
        /\ center = argsIn.center

(***************************************************************************)
(* SpecStability: two fixed clouds, the clusterer alternating the index    *)
(* that holds the first one; previousCenter starts as clusterParams        *)
(* returns it and is set to the returned centers after each frame.         *)
(***************************************************************************)
WellSeparated(p, q) == Dist2(p, q) >= MaxCoord * MaxCoord

\* The points and the centroid of a cloud at position p.
Cloud(p) == <<p>>

InitStability ==
    /\ pc = "frame"
    /\ ImgIdle /\ ClusIdle /\ ABIdle
    /\ sources \in {s \in Points \X Points : WellSeparated(s[1], s[2])}
    /\ cloudIndex \in {0, 1}
    /\ previousCenter = clusterParams(TRUE).center
    /\ argsIn = None /\ frameNo = 0

TrackFrame ==
    /\ pc = "frame"
    /\ frameNo < MaxFrames
    /\ LET first  == IF cloudIndex = 0 THEN sources[1] ELSE sources[2]
           second == IF cloudIndex = 0 THEN sources[2] ELSE sources[1]
           r == centroidTracking(Cloud(first), Cloud(second), <<first, second>>,
                                 previousCenter)
       IN  /\ argsIn' = Args(Cloud(first), Cloud(second), <<first, second>>,
                             previousCenter)
           /\ clusterA' = r[1]
           /\ clusterB' = r[2]
           /\ center' = r[3]
           /\ previousCenter' = r[3]
    /\ cloudIndex' = 1 - cloudIndex
    /\ frameNo' = frameNo + 1
    /\ UNCHANGED <<pc, imgVars, clusVars, sources>>

NextStability == TrackFrame

SpecStability == InitStability /\ [][NextStability]_vars

\* C3 as stated: in every frame the center emitted as Cluster A is the
\* position of the first cloud.
ClusterAIsFirstCloud ==
    frameNo > 0 => center[1] = sources[1]

\* Raw index that held the first cloud in the first frame.
FirstIndex == (cloudIndex + frameNo) % 2

\* The first frame puts the first cloud in slot A: it swaps exactly when
\* the raw center[1] lies on the seed point.
FirstCloudTakesSlotA ==
    \/ (FirstIndex = 0 /\ sources[2] # <<0, 0>>)
    \/ (FirstIndex = 1 /\ sources[1] = <<0, 0>>)

\* C3 amended: in every frame the center emitted as Cluster A is the
\* position of the cloud the first frame put in slot A.
ClusterAKeepsFirstFrameCloud ==
    frameNo > 0 =>
        /\ center[1] = (IF FirstCloudTakesSlotA THEN sources[1] ELSE sources[2])
        /\ clusterA = Cloud(center[1])
        /\ previousCenter = center

StabilityReached ==
    /\ frameNo >= 3 /\ ~FirstCloudTakesSlotA
    /\ center[1] = sources[2]
    /\ argsIn.center # center

(***************************************************************************)
(* SpecDrift: two moving sources; in every frame each new center is        *)
(* nearer to its own previous center than half the distance between the    *)
(* two previous centers, and the clusterer labels them in either order.    *)
(***************************************************************************)
\* dist(p, q) < dist(prev[0], prev[1]) / 2, in squares.
WithinHalf(p, q, prev) == 4 * Dist2(p, q) < Dist2(prev[1], prev[2])

InitDrift ==
    /\ pc = "frame"
    /\ ImgIdle /\ ClusIdle /\ ABIdle
    /\ sources \in {s \in Points \X Points : s[1] # s[2]}
    /\ previousCenter = sources
    /\ cloudIndex = 0 /\ argsIn = None /\ frameNo = 0

TrackDrift ==
    /\ pc = "frame"
    /\ \E p \in Points, q \in Points, idx \in {0, 1} :
          /\ WithinHalf(previousCenter[1], p, previousCenter)
          /\ WithinHalf(previousCenter[2], q, previousCenter)
          /\ LET first  == IF idx = 0 THEN p ELSE q
                 second == IF idx = 0 THEN q ELSE p
                 r == centroidTracking(Cloud(first), Cloud(second),
                                       <<first, second>>, previousCenter)
             IN  /\ argsIn' = Args(Cloud(first), Cloud(second),
                                   <<first, second>>, previousCenter)
                 /\ clusterA' = r[1]
                 /\ clusterB' = r[2]
                 /\ center' = r[3]
                 /\ previousCenter' = r[3]
          /\ sources' = <<p, q>>
          /\ cloudIndex' = idx
    /\ frameNo' = IF frameNo < MaxFrames THEN frameNo + 1 ELSE frameNo
    /\ UNCHANGED <<pc, imgVars, clusVars>>

NextDrift == TrackDrift

SpecDrift == InitDrift /\ [][NextDrift]_vars

\* C10: under the half-distance condition either label order returns the
\* centers in the order of the previous frame's identities, frame after frame.
HalfDistanceKeepsIdentity ==
    /\ previousCenter = sources
    /\ frameNo > 0 => center = sources

DriftReached ==
    /\ frameNo >= 2 /\ cloudIndex = 1
    /\ sources[1] # argsIn.previousCenter[1]
    /\ sources[2] # argsIn.previousCenter[2]
    /\ center = sources /\ argsIn.center # center

====
